---------------------------- MODULE Spec2Model ----------------------------
(***************************************************************************)
(* The customer-verification graph of agents/supervisor_hitl_agent.py:     *)
(* query_router, verify_customer, collect_email and the supervisor_agent   *)
(* node, run by the graph engine for one conversation (thread).            *)
(*                                                                         *)
(* Text is a sequence of tokens (substrings); the token "@" is the         *)
(* character the email check looks for.  A message is a record             *)
(* [type, content].  The conversation state is a dict (a function from     *)
(* keys to values) in which the key customer_id may be absent.             *)
(* The LLM oracles (classification, extraction) and the availability of    *)
(* the database are inputs chosen nondeterministically at each call.       *)
(*                                                                         *)
(* Further down: execute_sql and get_database of tools/database.py, and    *)
(* calculate_order_status and adjust_status_distribution of                *)
(* data_generation/generate_orders.py, each under a specification of its   *)
(* own.                                                                    *)
(***************************************************************************)
EXTENDS Integers, Sequences, FiniteSets, TLC

VARIABLES
    state,       \* CustomState of the thread: messages and, once set, customer_id
    next,        \* the node the engine runs next, "END" when the invocation is over
    run,         \* "idle" | "running" | "interrupted" | "error"
    interrupts,  \* values of the pending interrupt(), <<>> when there is none
    store,       \* rows of the customers table
    use_checkpointer, \* the argument create_supervisor_hitl_agent was called with
    last,        \* history: what the last step of the thread did
    trace,       \* history: the steps of the current turn, from its START on
    peer,        \* a second conversation of the same graph: its thread and last step
    actor,       \* history: which of two conversations took the last step
    vin,         \* validate_customer_email called on its own: the argument
    vout,        \* ... and what the call did, NotCalled before it
    vcalls,      \* ... and how many times it has been called
    sqlin,       \* execute_sql called on its own: the argument
    sqlret,      \* ... and what the call did, NotCalled before it
    _db,         \* tools/database.py: the module-level connection, None at import
    created,     \* history: how many SQLDatabase connections have been created
    pc,          \* where each thread stands in get_database
    made,        \* the connection each thread has created and not yet stored
    got,         \* history: the instances get_database has returned to each thread
    orders,      \* generate_orders.py: the list of orders
    adjusted     \* ... and whether adjust_status_distribution has run on it

\* the variables of the graph and of validate_customer_email
graph ==
    <<state, next, run, interrupts, store, use_checkpointer, last, trace, peer, actor,
      vin, vout>>

\* the variables of execute_sql
sqlVars == <<sqlin, sqlret>>

\* the variables of get_database
dbVars == <<_db, created, pc, made, got>>

\* the variables of generate_orders
orderVars == <<orders, adjusted>>

\* the variables of the functions checked on their own, outside the graph
harness == <<vcalls, sqlVars, dbVars, orderVars>>

vars ==
    <<state, next, run, interrupts, store, use_checkpointer, last, trace, peer, actor,
      vin, vout, harness>>

\* none of the functions checked on their own has been called
HarnessIdle ==
    /\ vcalls = 0
    /\ sqlin = <<>>
    /\ sqlret = [tag |-> "NotCalled"]
    /\ _db = [tag |-> "None"]
    /\ created = 0
    /\ pc = <<>>
    /\ made = <<>>
    /\ got = <<>>
    /\ orders = <<>>
    /\ adjusted = FALSE

---------------------------------------------------------------------------
(* Bounds of the model *)

\* a host input is accepted only while the turn it starts fits in MaxMsgs messages
MaxMsgs == 9

\* how many earlier messages the alternative histories compared with a
\* conversation may hold
MaxEarlier == 2

\* longest argument given to validate_customer_email when it is called on its own
MaxLen == 3

\* how many times validate_customer_email is called again with the same argument
MaxCalls == 3

---------------------------------------------------------------------------
(* Text, messages, the customer store *)

EmailSarah == <<"sarah.chen", "@", "gmail.com">>
EmailOther == <<"x", "@", "gmail.com">>
Malformed  == <<"sarah.chen", "gmail.com">>
QueryText  == <<"What's the status of my last order?">>

Alphabet == {"sarah.chen", "@", "gmail.com", "x"}

Texts == UNION {[1..n -> Alphabet] : n \in 0..MaxLen}

\* what a human may type, as a new turn or as the answer to the prompt
UserTexts == {QueryText, EmailSarah, EmailOther}

\* the customers the generator may have put in the table (email is UNIQUE)
Customers ==
    { [customer_id |-> "CUST-001", email |-> EmailSarah, name |-> <<"Sarah Chen">>],
      [customer_id |-> "CUST-002", email |-> EmailOther, name |-> <<"Other One">>] }

HumanMessage(content) == [type |-> "human", content |-> content]

AIMessage(content) == [type |-> "ai", content |-> content]

Contains(text, tok) == \E i \in 1..Len(text) : text[i] = tok

---------------------------------------------------------------------------
(* Values of the helper functions *)

None == [tag |-> "None"]

Raise == [tag |-> "Raise"]

CustomerInfo(id, name) ==
    [tag |-> "CustomerInfo", customer_id |-> id, customer_name |-> name]

NoUpdate == [k \in {} |-> <<>>]

Command(update, goto) == [tag |-> "Command", update |-> update, goto |-> goto]

Interrupt(value) == [tag |-> "Interrupt", value |-> value]

\* bool(d.get(key)) for a key that holds a str: there, and not the empty string
TruthyStr(d, key) == key \in DOMAIN d /\ d[key] # ""

\* bool(d.get(key)) for a key that holds a bool (an absent key gives None)
TruthyBool(d, key) == key \in DOMAIN d /\ d[key] = TRUE

---------------------------------------------------------------------------
(* The oracles' possible answers *)

\* structured_llm.invoke: a QueryClassification dict, a dict without the
\* flag, or an exception
ClassifyOutcomes ==
    { [reasoning |-> "r", requires_verification |-> TRUE],
      [reasoning |-> "r", requires_verification |-> FALSE],
      [reasoning |-> "r"],
      Raise }

\* email_extractor.invoke: an EmailExtraction dict or an exception
ExtractOutcomes ==
    { [email |-> e] : e \in {<<>>, EmailSarah, EmailOther, Malformed} }
        \cup {[reasoning |-> "r"], Raise}

---------------------------------------------------------------------------
(* validate_customer_email: the value returned (or Raise), the            *)
(* connections opened, the queries executed (by the email they select)    *)
(* and the changes to the table they made                                  *)

\* the table after a call's changes: rows inserted and rows deleted
Commit(db, changes) ==
    LET Inserted == {changes[i].row : i \in {j \in 1..Len(changes) : changes[j].op = "insert"}}
        Deleted  == {changes[i].row : i \in {j \in 1..Len(changes) : changes[j].op = "delete"}}
    IN  (db \cup Inserted) \ Deleted

\* validate_customer_email registering an address it does not know
validate_customer_email_Registers(email, db, dbUp) ==
    IF email = <<>> \/ ~Contains(email, "@")
    THEN [result |-> None, connects |-> 0, queries |-> <<>>, changes |-> <<>>]
    ELSE IF ~dbUp
    THEN [result |-> Raise, connects |-> 1, queries |-> <<email>>, changes |-> <<>>]
    ELSE LET rows == {r \in db : r.email = email}
             result == IF rows = {} THEN None ELSE CHOOSE r \in rows : TRUE
         IN  [result   |-> IF result = None THEN None
                           ELSE CustomerInfo(result.customer_id, result.name),
              connects |-> 1,
              queries  |-> <<email>>,
              changes  |-> IF result = None
                           THEN <<[op |-> "insert",
                                   row |-> [customer_id |-> "CUST-NEW", email |-> email,
                                            name |-> <<"New Customer">>]]>>
                           ELSE <<>>]


\* validate_customer_email querying the table before it checks the format
validate_customer_email_LookupFirst(email, db, dbUp) ==
    IF ~dbUp
    THEN [result |-> Raise, connects |-> 1, queries |-> <<email>>, changes |-> <<>>]
    ELSE LET rows == {r \in db : r.email = email}
         IN  [result   |-> IF rows = {} \/ email = <<>> \/ ~Contains(email, "@")
                           THEN None
                           ELSE LET r == CHOOSE r \in rows : TRUE
                                IN  CustomerInfo(r.customer_id, r.name),
              connects |-> 1,
              queries  |-> <<email>>,
              changes  |-> <<>>]

\* validate_customer_email selecting without the WHERE clause: any row will do
validate_customer_email_FirstRow(email, db, dbUp) ==
    IF email = <<>> \/ ~Contains(email, "@")
    THEN [result |-> None, connects |-> 0, queries |-> <<>>, changes |-> <<>>]
    ELSE IF ~dbUp
    THEN [result |-> Raise, connects |-> 1, queries |-> <<email>>, changes |-> <<>>]
    ELSE LET result == IF db = {} THEN None ELSE CHOOSE r \in db : TRUE
         IN  [result   |-> IF result = None THEN None
                           ELSE CustomerInfo(result.customer_id, result.name),
              connects |-> 1,
              queries  |-> <<email>>,
              changes  |-> <<>>]

\* validate_customer_email taking the row it found out of the table
validate_customer_email_Consumes(email, db, dbUp) ==
    IF email = <<>> \/ ~Contains(email, "@")
    THEN [result |-> None, connects |-> 0, queries |-> <<>>, changes |-> <<>>]
    ELSE IF ~dbUp
    THEN [result |-> Raise, connects |-> 1, queries |-> <<email>>, changes |-> <<>>]
    ELSE LET rows == {r \in db : r.email = email}
             result == IF rows = {} THEN None ELSE CHOOSE r \in rows : TRUE
         IN  [result   |-> IF result = None THEN None
                           ELSE CustomerInfo(result.customer_id, result.name),
              connects |-> 1,
              queries  |-> <<email>>,
              changes  |-> IF result = None THEN <<>>
                           ELSE <<[op |-> "delete", row |-> result]>>]

validate_customer_email(email, db, dbUp) ==
    IF email = <<>> \/ ~Contains(email, "@")
    THEN [result |-> None, connects |-> 0, queries |-> <<>>, changes |-> <<>>]
    ELSE IF ~dbUp
    THEN [result |-> Raise, connects |-> 1, queries |-> <<email>>, changes |-> <<>>]
    ELSE LET rows == {r \in db : r.email = email}
             result == IF rows = {} THEN None ELSE CHOOSE r \in rows : TRUE
         IN  [result   |-> IF result = None THEN None
                           ELSE CustomerInfo(result.customer_id, result.name),
              connects |-> 1,
              queries  |-> <<email>>,
              changes  |-> <<>>]

---------------------------------------------------------------------------
(* The graph nodes.  Each returns what the node returns (cmd: a Command,   *)
(* an Interrupt or Raise) and the calls it made on the way.                *)

NoCalls ==
    [classify |-> <<>>, extract |-> <<>>, validate |-> <<>>,
     connects |-> 0, queries |-> <<>>, changes |-> <<>>]

Returns(cmd, calls) == [cmd |-> cmd, calls |-> calls]

LastMessage(st) == st.messages[Len(st.messages)]

\* the call classify_query_intent(query) and what the LLM answered
ClassifyCall(query, ret) == [query |-> query, ret |-> ret]

\* the call email_extractor.invoke([message]) and what the LLM answered
ExtractCall(message, ret) == [message |-> message, ret |-> ret]

\* query_router calling the classifier before it looks at customer_id
query_router_ClassifyFirst(st, classification) ==
    LET last_message == LastMessage(st)
        calls == [NoCalls EXCEPT
                    !.classify = <<ClassifyCall(last_message.content, classification)>>]
    IN  IF classification = Raise
        THEN Returns(Raise, calls)
        ELSE IF TruthyStr(st, "customer_id")
        THEN Returns(Command(NoUpdate, "supervisor_agent"), calls)
        ELSE IF TruthyBool(classification, "requires_verification")
        THEN Returns(Command(NoUpdate, "verify_customer"), calls)
        ELSE Returns(Command(NoUpdate, "supervisor_agent"), calls)

\* query_router without the "already verified" shortcut
query_router_NoSkip(st, classification) ==
    LET last_message == LastMessage(st)
        calls == [NoCalls EXCEPT
                    !.classify = <<ClassifyCall(last_message.content, classification)>>]
    IN  IF classification = Raise
        THEN Returns(Raise, calls)
        ELSE IF TruthyBool(classification, "requires_verification")
        THEN Returns(Command(NoUpdate, "verify_customer"), calls)
        ELSE Returns(Command(NoUpdate, "supervisor_agent"), calls)

\* query_router routing on the presence of the flag instead of its value
query_router_FlagPresent(st, classification) ==
    IF TruthyStr(st, "customer_id")
    THEN Returns(Command(NoUpdate, "supervisor_agent"), NoCalls)
    ELSE LET last_message == LastMessage(st)
             calls == [NoCalls EXCEPT
                         !.classify = <<ClassifyCall(last_message.content, classification)>>]
         IN  IF classification = Raise
             THEN Returns(Raise, calls)
             ELSE IF "requires_verification" \in DOMAIN classification
             THEN Returns(Command(NoUpdate, "verify_customer"), calls)
             ELSE Returns(Command(NoUpdate, "supervisor_agent"), calls)

\* query_router adding the classifier's reasoning to the conversation
query_router_NotesReasoning(st, classification) ==
    IF TruthyStr(st, "customer_id")
    THEN Returns(Command(NoUpdate, "supervisor_agent"), NoCalls)
    ELSE LET last_message == LastMessage(st)
             calls == [NoCalls EXCEPT
                         !.classify = <<ClassifyCall(last_message.content, classification)>>]
             note == [messages |-> <<AIMessage(<<"reasoning">>)>>]
         IN  IF classification = Raise
             THEN Returns(Raise, calls)
             ELSE IF TruthyBool(classification, "requires_verification")
             THEN Returns(Command(note, "verify_customer"), calls)
             ELSE Returns(Command(note, "supervisor_agent"), calls)

query_router(st, classification) ==
    IF TruthyStr(st, "customer_id")
    THEN Returns(Command(NoUpdate, "supervisor_agent"), NoCalls)
    ELSE LET last_message == LastMessage(st)
             calls == [NoCalls EXCEPT
                         !.classify = <<ClassifyCall(last_message.content, classification)>>]
         IN  IF classification = Raise
             THEN Returns(Raise, calls)
             ELSE IF TruthyBool(classification, "requires_verification")
             THEN Returns(Command(NoUpdate, "verify_customer"), calls)
             ELSE Returns(Command(NoUpdate, "supervisor_agent"), calls)

\* the source's text starts with a check mark, left out here
Welcome(name) == <<"Verified! Welcome back, ">> \o name \o <<".">>

NotFound(email) ==
    <<"I couldn't find '">> \o email
        \o <<"' in our system. Please check and try again.">>

AskEmail ==
    <<"To access information about your account or orders, please provide your email address.">>

\* the three Commands verify_customer returns
\* the success Command without the customer_id update
Verified_NoCustomerId(customer) ==
    Command([messages |-> <<AIMessage(Welcome(customer.customer_name))>>],
            "supervisor_agent")

Verified(customer) ==
    Command([customer_id |-> customer.customer_id,
             messages |-> <<AIMessage(Welcome(customer.customer_name))>>],
            "supervisor_agent")

\* the "not found" Command going on to the responder
TryAgain_Bypass(extraction) ==
    Command([messages |-> <<AIMessage(NotFound(extraction.email))>>], "supervisor_agent")

\* the "not found" Command without its message
TryAgain_Silent(extraction) == Command(NoUpdate, "collect_email")

\* the "not found" Command running verify_customer again at once
TryAgain_Reverify(extraction) ==
    Command([messages |-> <<AIMessage(NotFound(extraction.email))>>], "verify_customer")

TryAgain(extraction) ==
    Command([messages |-> <<AIMessage(NotFound(extraction.email))>>], "collect_email")

\* the request for an email running verify_customer again at once
AskForEmail_Reverify == Command([messages |-> <<AIMessage(AskEmail)>>], "verify_customer")

\* the request for an email going on to the responder instead of collecting
AskForEmail_Bypass == Command([messages |-> <<AIMessage(AskEmail)>>], "supervisor_agent")

AskForEmail == Command([messages |-> <<AIMessage(AskEmail)>>], "collect_email")

\* verify_customer validating whatever was extracted, the empty string too
verify_customer_ValidateEmpty(st, extraction, db, dbUp) ==
    LET last_message == LastMessage(st)
        calls == [NoCalls EXCEPT !.extract = <<ExtractCall(last_message, extraction)>>]
    IN  IF extraction = Raise \/ "email" \notin DOMAIN extraction
        THEN Returns(Raise, calls)
        ELSE LET v == validate_customer_email(extraction.email, db, dbUp)
                 customer == v.result
                 calls2 == [calls EXCEPT !.validate = <<extraction.email>>,
                                         !.connects = v.connects,
                                         !.queries = v.queries,
                                         !.changes = v.changes]
             IN  IF customer = Raise
                 THEN Returns(Raise, calls2)
                 ELSE IF customer # None
                 THEN Returns(Verified(customer), calls2)
                 ELSE Returns(TryAgain(extraction), calls2)

\* verify_customer treating a failed extraction or lookup as "no customer"
verify_customer_SwallowsErrors(st, extraction, db, dbUp) ==
    LET last_message == LastMessage(st)
        calls == [NoCalls EXCEPT !.extract = <<ExtractCall(last_message, extraction)>>]
    IN  IF extraction = Raise \/ "email" \notin DOMAIN extraction
        THEN Returns(AskForEmail, calls)
        ELSE IF extraction.email # <<>>
        THEN LET v == validate_customer_email(extraction.email, db, dbUp)
                 customer == v.result
                 calls2 == [calls EXCEPT !.validate = <<extraction.email>>,
                                         !.connects = v.connects,
                                         !.queries = v.queries,
                                         !.changes = v.changes]
             IN  IF customer # None /\ customer # Raise
                 THEN Returns(Verified(customer), calls2)
                 ELSE Returns(TryAgain(extraction), calls2)
        ELSE Returns(AskForEmail, calls)

\* verify_customer handing the whole conversation to the extractor
verify_customer_WholeHistory(st, extraction, db, dbUp) ==
    LET calls == [NoCalls EXCEPT !.extract = <<ExtractCall(st.messages, extraction)>>]
    IN  IF extraction = Raise \/ "email" \notin DOMAIN extraction
        THEN Returns(Raise, calls)
        ELSE IF extraction.email # <<>>
        THEN LET v == validate_customer_email(extraction.email, db, dbUp)
                 customer == v.result
                 calls2 == [calls EXCEPT !.validate = <<extraction.email>>,
                                         !.connects = v.connects,
                                         !.queries = v.queries,
                                         !.changes = v.changes]
             IN  IF customer = Raise
                 THEN Returns(Raise, calls2)
                 ELSE IF customer # None
                 THEN Returns(Verified(customer), calls2)
                 ELSE Returns(TryAgain(extraction), calls2)
        ELSE Returns(AskForEmail, calls)

\* verify_customer failing on an extracted string that is no email address
verify_customer_MalformedIsError(st, extraction, db, dbUp) ==
    LET last_message == LastMessage(st)
        calls == [NoCalls EXCEPT !.extract = <<ExtractCall(last_message, extraction)>>]
    IN  IF extraction = Raise \/ "email" \notin DOMAIN extraction
        THEN Returns(Raise, calls)
        ELSE IF extraction.email # <<>> /\ ~Contains(extraction.email, "@")
        THEN Returns(Raise, calls)
        ELSE IF extraction.email # <<>>
        THEN LET v == validate_customer_email(extraction.email, db, dbUp)
                 customer == v.result
                 calls2 == [calls EXCEPT !.validate = <<extraction.email>>,
                                         !.connects = v.connects,
                                         !.queries = v.queries,
                                         !.changes = v.changes]
             IN  IF customer = Raise
                 THEN Returns(Raise, calls2)
                 ELSE IF customer # None
                 THEN Returns(Verified(customer), calls2)
                 ELSE Returns(TryAgain(extraction), calls2)
        ELSE Returns(AskForEmail, calls)

verify_customer(st, extraction, db, dbUp) ==
    LET last_message == LastMessage(st)
        calls == [NoCalls EXCEPT !.extract = <<ExtractCall(last_message, extraction)>>]
    IN  IF extraction = Raise \/ "email" \notin DOMAIN extraction
        THEN Returns(Raise, calls)
        ELSE IF extraction.email # <<>>
        THEN LET v == validate_customer_email(extraction.email, db, dbUp)
                 customer == v.result
                 calls2 == [calls EXCEPT !.validate = <<extraction.email>>,
                                         !.connects = v.connects,
                                         !.queries = v.queries,
                                         !.changes = v.changes]
             IN  IF customer = Raise
                 THEN Returns(Raise, calls2)
                 ELSE IF customer # None
                 THEN Returns(Verified(customer), calls2)
                 ELSE Returns(TryAgain(extraction), calls2)
        ELSE Returns(AskForEmail, calls)

EmailPrompt == "Please provide your email:"

\* collect_email reading an empty answer instead of waiting for one
collect_email_NoWait(st, resume) ==
    LET user_input == IF resume = <<>> THEN <<>> ELSE resume[1]
    IN  Returns(Command([messages |-> <<HumanMessage(user_input)>>], "verify_customer"),
                NoCalls)

\* collect_email sending the collected text back to the router
collect_email_ToRouter(st, resume) ==
    IF resume = <<>>
    THEN Returns(Interrupt(EmailPrompt), NoCalls)
    ELSE Returns(Command([messages |-> <<HumanMessage(resume[1])>>], "query_router"),
                 NoCalls)

\* collect_email going back to verify_customer without the collected text
collect_email_DropsInput(st, resume) ==
    IF resume = <<>>
    THEN Returns(Interrupt(EmailPrompt), NoCalls)
    ELSE Returns(Command(NoUpdate, "verify_customer"), NoCalls)

\* collect_email handing the collected text to the responder unverified
collect_email_ToSupervisor(st, resume) ==
    IF resume = <<>>
    THEN Returns(Interrupt(EmailPrompt), NoCalls)
    ELSE Returns(Command([messages |-> <<HumanMessage(resume[1])>>], "supervisor_agent"),
                 NoCalls)

\* interrupt(value): raises GraphInterrupt when the node runs without a resume
\* value, returns the resume value when the node is re-run with one
collect_email(st, resume) ==
    IF resume = <<>>
    THEN Returns(Interrupt(EmailPrompt), NoCalls)
    ELSE LET user_input == resume[1]
         IN  Returns(Command([messages |-> <<HumanMessage(user_input)>>],
                             "verify_customer"),
                     NoCalls)

SUPERVISOR_AGENT_SYSTEM_PROMPT == "You are a supervisor agent for TechHub customer support."

supervisor_prompt(st) ==
    IF TruthyStr(st, "customer_id")
    THEN <<SUPERVISOR_AGENT_SYSTEM_PROMPT,
           "The customer's ID in this conversation is: ", st.customer_id>>
    ELSE <<SUPERVISOR_AGENT_SYSTEM_PROMPT>>

\* the compiled supervisor agent as a node: answers with one assistant
\* message, or fails
supervisor_agent(st, ok) ==
    IF ok
    THEN Returns(Command([messages |-> <<AIMessage(<<"answer">>)>>], "END"), NoCalls)
    ELSE Returns(Raise, NoCalls)

---------------------------------------------------------------------------
(* The graph engine *)

\* a Command's update: messages are appended (the add_messages reducer),
\* every other key is overwritten
\* an update replacing every key but messages: a key it lacks is dropped
ApplyUpdate_Replaces(st, update) ==
    [k \in {"messages"} \cup DOMAIN update |->
        IF k \notin DOMAIN update THEN st[k]
        ELSE IF k = "messages" THEN st.messages \o update.messages
        ELSE update[k]]

ApplyUpdate(st, update) ==
    [k \in DOMAIN st \cup DOMAIN update |->
        IF k \notin DOMAIN update THEN st[k]
        ELSE IF k = "messages" THEN st.messages \o update.messages
        ELSE update[k]]

Step(node, input, ret, prompt) ==
    [node |-> node, input |-> input, calls |-> ret.calls,
     raised |-> ret.cmd = Raise,
     goto |-> IF ret.cmd.tag = "Command" THEN ret.cmd.goto ELSE "",
     update |-> IF ret.cmd.tag = "Command" THEN ret.cmd.update ELSE NoUpdate,
     prompt |-> prompt]

NoStep ==
    [node |-> "", input |-> <<>>, calls |-> NoCalls, raised |-> FALSE,
     goto |-> "", update |-> NoUpdate, prompt |-> <<>>]

\* what the engine does with what a node returned
Apply(node, input, ret, prompt) ==
    /\ last' = Step(node, input, ret, prompt)
    /\ trace' = IF node = "START"
                THEN <<Step(node, input, ret, prompt)>>
                ELSE Append(trace, Step(node, input, ret, prompt))
    /\ store' = Commit(store, ret.calls.changes)
    /\ UNCHANGED <<use_checkpointer, peer, actor, vin, vout, harness>>
    /\ IF ret.cmd.tag = "Command"
       THEN /\ state' = ApplyUpdate(state, ret.cmd.update)
            /\ next' = ret.cmd.goto
            /\ run' = IF ret.cmd.goto = "END" THEN "idle" ELSE "running"
            /\ interrupts' = <<>>
       ELSE IF ret.cmd.tag = "Interrupt"
       THEN /\ run' = "interrupted"
            /\ interrupts' = <<ret.cmd.value>>
            /\ UNCHANGED <<state, next>>
       ELSE /\ run' = "error"
            /\ UNCHANGED <<state, next, interrupts>>

NotCalled == [tag |-> "NotCalled"]

\* a conversation as the engine holds it
Thread(st, nx, rn, ints) ==
    [state |-> st, next |-> nx, run |-> rn, interrupts |-> ints]

\* a conversation nothing has been sent to yet
NewThread == Thread([messages |-> <<>>], "END", "idle", <<>>)

Init ==
    /\ state = [messages |-> <<>>]
    /\ next = "END"
    /\ run = "idle"
    /\ interrupts = <<>>
    /\ store \in SUBSET Customers
    /\ use_checkpointer = TRUE
    /\ last = NoStep
    /\ trace = <<>>
    /\ peer = NewThread
    /\ actor = ""
    /\ vin = <<>>
    /\ vout = NotCalled
    /\ HarnessIdle

\* graph.invoke({"messages": [HumanMessage(text)]}): the input is written to
\* the state and the edge START -> query_router is taken
NewTurn ==
    /\ run = "idle"
    /\ Len(state.messages) + 3 <= MaxMsgs
    /\ \E text \in UserTexts :
          Apply("START", text,
                Returns(Command([messages |-> <<HumanMessage(text)>>], "query_router"),
                        NoCalls),
                <<>>)

QueryRouter ==
    /\ run = "running"
    /\ next = "query_router"
    /\ \E c \in ClassifyOutcomes :
          Apply("query_router", <<>>, query_router(state, c), <<>>)

VerifyCustomer ==
    /\ run = "running"
    /\ next = "verify_customer"
    /\ \E e \in ExtractOutcomes, dbUp \in BOOLEAN :
          Apply("verify_customer", <<>>, verify_customer(state, e, store, dbUp), <<>>)

\* collect_email runs and stops at interrupt()
CollectEmail ==
    /\ run = "running"
    /\ next = "collect_email"
    /\ Apply("collect_email", <<>>, collect_email(state, <<>>), <<>>)

\* graph.invoke(Command(resume=text)): collect_email is run again and
\* interrupt() returns text
Resume ==
    /\ run = "interrupted"
    /\ Len(state.messages) + 3 <= MaxMsgs
    /\ \E text \in UserTexts :
          Apply(next, text, collect_email(state, <<text>>), <<>>)

SupervisorAgent ==
    /\ run = "running"
    /\ next = "supervisor_agent"
    /\ \E ok \in BOOLEAN :
          Apply("supervisor_agent", <<>>, supervisor_agent(state, ok),
                supervisor_prompt(state))

Next ==
    \/ NewTurn
    \/ QueryRouter
    \/ VerifyCustomer
    \/ CollectEmail
    \/ Resume
    \/ SupervisorAgent

Spec == Init /\ [][Next]_vars

---------------------------------------------------------------------------
(* Two conversations of the same compiled graph, "a" (the variables state, *)
(* next, run, interrupts) and "b" (peer), their steps interleaved; last is  *)
(* the last step either of them took.                                      *)
(* The engine keeps one checkpoint per thread id and runs a node on the    *)
(* checkpoint of the thread it was invoked for.                            *)

\* a host input is accepted by either conversation only while the turn it
\* starts fits in MaxMsgs2 messages
MaxMsgs2 == 5

\* what the two users type: a question, or the email of a customer who may
\* or may not be in the table
TwoTexts == {QueryText, EmailOther}

\* Apply, on a conversation held as a value: the conversation afterwards,
\* the record of the step and the changes made to the table
After(c, node, input, ret, prompt) ==
    LET conv == IF ret.cmd.tag = "Command"
                THEN Thread(ApplyUpdate(c.state, ret.cmd.update), ret.cmd.goto,
                            IF ret.cmd.goto = "END" THEN "idle" ELSE "running", <<>>)
                ELSE IF ret.cmd.tag = "Interrupt"
                THEN Thread(c.state, c.next, "interrupted", <<ret.cmd.value>>)
                ELSE Thread(c.state, c.next, "error", c.interrupts)
    IN  [conv |-> conv, step |-> Step(node, input, ret, prompt),
         changes |-> ret.calls.changes]

\* the steps conversation c can take: NewTurn, QueryRouter, VerifyCustomer,
\* CollectEmail, Resume or SupervisorAgent, whichever is enabled
Outcomes(c, db, texts, max_msgs) ==
    IF c.run = "idle"
    THEN IF Len(c.state.messages) + 3 <= max_msgs
         THEN { After(c, "START", text,
                      Returns(Command([messages |-> <<HumanMessage(text)>>], "query_router"),
                              NoCalls),
                      <<>>) : text \in texts }
         ELSE {}
    ELSE IF c.run = "interrupted"
    THEN IF Len(c.state.messages) + 3 <= max_msgs
         THEN { After(c, c.next, text, collect_email(c.state, <<text>>), <<>>) :
                   text \in texts }
         ELSE {}
    ELSE IF c.run # "running"
    THEN {}
    ELSE IF c.next = "query_router"
    THEN { After(c, "query_router", <<>>, query_router(c.state, cl), <<>>) :
              cl \in ClassifyOutcomes }
    ELSE IF c.next = "verify_customer"
    THEN { After(c, "verify_customer", <<>>, verify_customer(c.state, e, db, dbUp), <<>>) :
              e \in ExtractOutcomes, dbUp \in BOOLEAN }
    ELSE IF c.next = "collect_email"
    THEN { After(c, "collect_email", <<>>, collect_email(c.state, <<>>), <<>>) }
    ELSE IF c.next = "supervisor_agent"
    THEN { After(c, "supervisor_agent", <<>>, supervisor_agent(c.state, ok),
                 supervisor_prompt(c.state)) : ok \in BOOLEAN }
    ELSE {}

\* one checkpoint for every thread: the last writer's
Put_SingleSlot(saved, thread_id, conv) == [t \in DOMAIN saved |-> conv]

\* the checkpointer stores a conversation under its thread id
Put(saved, thread_id, conv) == [saved EXCEPT ![thread_id] = conv]

\* a step of the conversation with this thread id
ConvStep(thread_id) ==
    LET saved == [a |-> Thread(state, next, run, interrupts), b |-> peer]
    IN  \E o \in Outcomes(saved[thread_id], store, TwoTexts, MaxMsgs2) :
          LET saved2 == Put(saved, thread_id, o.conv)
          IN  /\ state' = saved2.a.state
              /\ next' = saved2.a.next
              /\ run' = saved2.a.run
              /\ interrupts' = saved2.a.interrupts
              /\ last' = o.step
              /\ peer' = saved2.b
              /\ store' = Commit(store, o.changes)
              /\ actor' = thread_id
              /\ UNCHANGED <<use_checkpointer, trace, vin, vout, harness>>

\* both conversations new; the table holds Sarah Chen, and the other
\* customer or not
TwoInit ==
    /\ state = [messages |-> <<>>]
    /\ next = "END"
    /\ run = "idle"
    /\ interrupts = <<>>
    /\ store \in { db \in SUBSET Customers : \E c \in db : c.email = EmailSarah }
    /\ use_checkpointer = TRUE
    /\ last = NoStep
    /\ trace = <<>>
    /\ peer = NewThread
    /\ actor = ""
    /\ vin = <<>>
    /\ vout = NotCalled
    /\ HarnessIdle

StepA == ConvStep("a")

StepB == ConvStep("b")

TwoNext ==
    \/ StepA
    \/ StepB

TwoSpec == TwoInit /\ [][TwoNext]_vars

---------------------------------------------------------------------------
(* The process that holds the compiled graph is torn down and started      *)
(* again between two invocations.  With use_checkpointer the checkpoints   *)
(* are in a MemorySaver, an object of the process; without it the graph is *)
(* compiled with no checkpointer and the deployment platform keeps them.   *)

\* a MemorySaver given to compile() whatever use_checkpointer says
Restarted_MemorySaverAlways(with_memory_saver, th) == NewThread

\* the thread a restarted process finds
Restarted(with_memory_saver, th) ==
    IF with_memory_saver THEN NewThread ELSE th

RestartStep == [NoStep EXCEPT !.node = "RESTART"]

Restart ==
    /\ run # "running"
    /\ LET th == Restarted(use_checkpointer, Thread(state, next, run, interrupts))
       IN  /\ state' = th.state
           /\ next' = th.next
           /\ run' = th.run
           /\ interrupts' = th.interrupts
    /\ last' = RestartStep
    /\ trace' = <<>>
    /\ UNCHANGED <<store, use_checkpointer, peer, actor, vin, vout, harness>>

RestartInit ==
    /\ state = [messages |-> <<>>]
    /\ next = "END"
    /\ run = "idle"
    /\ interrupts = <<>>
    /\ store \in SUBSET Customers
    /\ use_checkpointer \in BOOLEAN
    /\ last = NoStep
    /\ trace = <<>>
    /\ peer = NewThread
    /\ actor = ""
    /\ vin = <<>>
    /\ vout = NotCalled
    /\ HarnessIdle

RestartNext ==
    \/ Next
    \/ Restart

RestartSpec == RestartInit /\ [][RestartNext]_vars

---------------------------------------------------------------------------
(* validate_customer_email called on its own, on any text of at most       *)
(* MaxLen tokens                                                           *)

ValidateInit ==
    /\ state = [messages |-> <<>>]
    /\ next = "END"
    /\ run = "idle"
    /\ interrupts = <<>>
    /\ store \in SUBSET Customers
    /\ use_checkpointer = TRUE
    /\ last = NoStep
    /\ trace = <<>>
    /\ peer = NewThread
    /\ actor = ""
    /\ vin \in Texts
    /\ vout = NotCalled
    /\ HarnessIdle

ValidateCall ==
    /\ vout = NotCalled
    /\ \E dbUp \in BOOLEAN : vout' = validate_customer_email(vin, store, dbUp)
    /\ store' = Commit(store, vout'.changes)
    /\ UNCHANGED <<state, next, run, interrupts, use_checkpointer, last, trace, peer,
                   actor, vin, harness>>

ValidateSpec == ValidateInit /\ [][ValidateCall]_vars

\* validate_customer_email called again and again with the same argument,
\* nothing else writing to the table in between
Revalidate ==
    /\ vcalls < MaxCalls
    /\ \E dbUp \in BOOLEAN : vout' = validate_customer_email(vin, store, dbUp)
    /\ store' = Commit(store, vout'.changes)
    /\ vcalls' = vcalls + 1
    /\ UNCHANGED <<state, next, run, interrupts, use_checkpointer, last, trace, peer,
                   actor, vin, sqlVars, dbVars, orderVars>>

RevalidateSpec == ValidateInit /\ [][Revalidate]_vars

---------------------------------------------------------------------------
(* tools/database.py: execute_sql called on its own.  A query is a         *)
(* sequence of tokens written one after the other with nothing in          *)
(* between; the token " " is whitespace.                                   *)

\* longest query given to execute_sql
MaxQueryLen == 3

FORBIDDEN ==
    <<"INSERT", "UPDATE", "DELETE", "ALTER", "DROP", "CREATE", "REPLACE", "TRUNCATE">>

\* the tokens a query is made of
SqlAlphabet ==
    {" ", "select", "SELECT", "x", "created_at",
     "insert", "update", "delete", "alter", "drop", "create", "replace", "truncate"}

Queries == UNION {[1..n -> SqlAlphabet] : n \in 0..MaxQueryLen}

\* str.upper() of one token, as the pieces the checks look for
UpperOf(tok) ==
    CASE tok = " " -> <<" ">>
      [] tok \in {"select", "SELECT"} -> <<"SELECT">>
      [] tok = "x" -> <<"X">>
      [] tok = "created_at" -> <<"CREATE", "D_AT">>
      [] tok = "insert" -> <<"INSERT">>
      [] tok = "update" -> <<"UPDATE">>
      [] tok = "delete" -> <<"DELETE">>
      [] tok = "alter" -> <<"ALTER">>
      [] tok = "drop" -> <<"DROP">>
      [] tok = "create" -> <<"CREATE">>
      [] tok = "replace" -> <<"REPLACE">>
      [] tok = "truncate" -> <<"TRUNCATE">>

RECURSIVE upper(_)
\* str.upper()
upper(text) ==
    IF text = <<>> THEN <<>> ELSE UpperOf(Head(text)) \o upper(Tail(text))

RECURSIVE lstrip(_)
lstrip(text) ==
    IF text # <<>> /\ Head(text) = " " THEN lstrip(Tail(text)) ELSE text

RECURSIVE rstrip(_)
rstrip(text) ==
    IF text # <<>> /\ text[Len(text)] = " "
    THEN rstrip(SubSeq(text, 1, Len(text) - 1))
    ELSE text

\* str.strip()
strip(text) == rstrip(lstrip(text))

\* str.startswith(prefix), prefix one of the pieces
startswith(text, prefix) == text # <<>> /\ Head(text) = prefix

ErrorString(text) == [type |-> "str", text |-> text]

OnlySelect == ErrorString(<<"Error: Only SELECT queries are allowed.">>)

ForbiddenKeyword == ErrorString(<<"Error: Query contains forbidden keyword.">>)

\* what db._execute(query) does: rows, or an exception with its message
DbOutcomes ==
    {[raised |-> FALSE, rows |-> <<>>],
     [raised |-> FALSE, rows |-> <<[customer_id |-> "CUST-001"]>>],
     [raised |-> TRUE, message |-> "no such table"]}

\* the values of each row, as a tuple
extract_values(rows) == [i \in 1..Len(rows) |-> <<rows[i].customer_id>>]

\* what execute_sql returns, the calls of get_database it made and the
\* queries it gave to the database
SqlReturns(result, get_database, executed) ==
    [result |-> result, get_database |-> get_database, executed |-> executed]

\* execute_sql looking for the forbidden keywords in the query as written
execute_sql_CaseSensitive(q, outcome) ==
    IF ~startswith(upper(strip(q)), "SELECT")
    THEN SqlReturns(OnlySelect, 0, <<>>)
    ELSE IF \E k \in 1..Len(FORBIDDEN) : Contains(q, FORBIDDEN[k])
    THEN SqlReturns(ForbiddenKeyword, 0, <<>>)
    ELSE IF outcome.raised
    THEN SqlReturns(ErrorString(<<"SQL Error: ", outcome.message>>), 1, <<q>>)
    ELSE SqlReturns([type |-> "list", rows |-> extract_values(outcome.rows)], 1, <<q>>)

\* execute_sql accepting whatever mentions SELECT first
execute_sql_NoForbiddenCheck(q, outcome) ==
    IF ~startswith(upper(strip(q)), "SELECT")
    THEN SqlReturns(OnlySelect, 0, <<>>)
    ELSE IF outcome.raised
    THEN SqlReturns(ErrorString(<<"SQL Error: ", outcome.message>>), 1, <<q>>)
    ELSE SqlReturns([type |-> "list", rows |-> extract_values(outcome.rows)], 1, <<q>>)

execute_sql(q, outcome) ==
    IF ~startswith(upper(strip(q)), "SELECT")
    THEN SqlReturns(OnlySelect, 0, <<>>)
    ELSE IF \E k \in 1..Len(FORBIDDEN) : Contains(upper(q), FORBIDDEN[k])
    THEN SqlReturns(ForbiddenKeyword, 0, <<>>)
    ELSE IF outcome.raised
    THEN SqlReturns(ErrorString(<<"SQL Error: ", outcome.message>>), 1, <<q>>)
    ELSE SqlReturns([type |-> "list", rows |-> extract_values(outcome.rows)], 1, <<q>>)

\* no conversation is going on
GraphIdle ==
    /\ state = [messages |-> <<>>]
    /\ next = "END"
    /\ run = "idle"
    /\ interrupts = <<>>
    /\ store = Customers
    /\ use_checkpointer = TRUE
    /\ last = NoStep
    /\ trace = <<>>
    /\ peer = NewThread
    /\ actor = ""
    /\ vin = <<>>
    /\ vout = NotCalled

\* get_database has not been called since the module was imported
DbIdle ==
    /\ _db = None
    /\ created = 0
    /\ pc = <<>>
    /\ made = <<>>
    /\ got = <<>>
    /\ orders = <<>>
    /\ adjusted = FALSE

SqlInit ==
    /\ GraphIdle
    /\ vcalls = 0
    /\ sqlin \in Queries
    /\ sqlret = NotCalled
    /\ DbIdle

ExecuteSql ==
    /\ sqlret = NotCalled
    /\ \E outcome \in DbOutcomes : sqlret' = execute_sql(sqlin, outcome)
    /\ UNCHANGED <<graph, vcalls, sqlin, dbVars, orderVars>>

SqlSpec == SqlInit /\ [][ExecuteSql]_vars

---------------------------------------------------------------------------
(* tools/database.py: get_database called from the threads that run the    *)
(* tools.  The function takes no lock, so a thread may be switched out     *)
(* between any two of its steps: the test of _db, the creation of the      *)
(* connection, the assignment to _db and the return of _db.                *)

\* the threads executing tools in parallel
Workers == {"w1", "w2", "w3"}

\* how many times each thread calls get_database
MaxGets == 2

\* SQLDatabase.from_uri(...): a new connection, told apart by its number
SQLDatabase(n) == [tag |-> "SQLDatabase", n |-> n]

DbInit ==
    /\ GraphIdle
    /\ vcalls = 0
    /\ sqlin = <<>>
    /\ sqlret = NotCalled
    /\ _db = None
    /\ created = 0
    /\ pc = [t \in Workers |-> "idle"]
    /\ made = [t \in Workers |-> None]
    /\ got = [t \in Workers |-> <<>>]
    /\ orders = <<>>
    /\ adjusted = FALSE

\* a thread calls get_database
Call(t) ==
    /\ pc[t] = "idle"
    /\ Len(got[t]) < MaxGets
    /\ pc' = [pc EXCEPT ![t] = "test"]
    /\ UNCHANGED <<graph, vcalls, sqlVars, orderVars, _db, created, made, got>>

\* if _db is None:
Test(t) ==
    /\ pc[t] = "test"
    /\ pc' = [pc EXCEPT ![t] = IF _db = None THEN "create" ELSE "return"]
    /\ UNCHANGED <<graph, vcalls, sqlVars, orderVars, _db, created, made, got>>

\* SQLDatabase.from_uri(f"sqlite:///{DEFAULT_DB_PATH}")
Create(t) ==
    /\ pc[t] = "create"
    /\ created' = created + 1
    /\ made' = [made EXCEPT ![t] = SQLDatabase(created + 1)]
    /\ pc' = [pc EXCEPT ![t] = "assign"]
    /\ UNCHANGED <<graph, vcalls, sqlVars, orderVars, _db, got>>

\* _db = ...
Assign(t) ==
    /\ pc[t] = "assign"
    /\ _db' = made[t]
    /\ made' = [made EXCEPT ![t] = None]
    /\ pc' = [pc EXCEPT ![t] = "return"]
    /\ UNCHANGED <<graph, vcalls, sqlVars, orderVars, created, got>>

\* return _db
Return(t) ==
    /\ pc[t] = "return"
    /\ got' = [got EXCEPT ![t] = Append(got[t], _db)]
    /\ pc' = [pc EXCEPT ![t] = "idle"]
    /\ UNCHANGED <<graph, vcalls, sqlVars, orderVars, _db, created, made>>

get_database(t) ==
    \/ Call(t)
    \/ Test(t)
    \/ Create(t)
    \/ Assign(t)
    \/ Return(t)

DbNext == \E t \in Workers : get_database(t)

DbSpec == DbInit /\ [][DbNext]_vars

---------------------------------------------------------------------------
(* data_generation/generate_orders.py: calculate_order_status for each     *)
(* order, then adjust_status_distribution on the list.  A date is a        *)
(* number of days, CURRENT_DATE being day 0; isoformat() keeps the order   *)
(* of dates, so the strings the code sorts and stores are modelled by the  *)
(* day numbers.  An absent shipped_date or tracking_number (None) is <<>>, *)
(* a present one <<value>>.  The values drawn from random are inputs.      *)

\* longest list of orders
MaxOrders == 15

CURRENT_DATE == 0

\* how many days before CURRENT_DATE the orders explored were placed
OrderDaysAgo == {9, 30}

\* the values of random.randint(1, 3) explored
ShipDelays == {1, 2}

\* f"1Z999AA1{random.randint(10000000, 99999999)}"
Tracking == "1Z999AA1"

\* calculate_order_status; r holds what random returned: whether the first
\* random() fell under 0.015, whether the second fell under
\* processing_chance, and the ship delay
calculate_order_status(order_date, current_date, r) ==
    LET days_since_order == current_date - order_date
    IN  IF r.cancel
        THEN [status |-> "Cancelled", shipped_date |-> <<>>, tracking_number |-> <<>>]
        ELSE IF days_since_order <= 10 /\ r.processing
        THEN [status |-> "Processing", shipped_date |-> <<>>, tracking_number |-> <<>>]
        ELSE LET shipped_date == order_date + r.ship_delay
                 days_since_ship == current_date - shipped_date
             IN  IF days_since_ship > 7
                 THEN [status |-> "Delivered", shipped_date |-> <<shipped_date>>,
                       tracking_number |-> <<Tracking>>]
                 ELSE IF days_since_ship >= 0
                 THEN [status |-> "Shipped", shipped_date |-> <<shipped_date>>,
                       tracking_number |-> <<Tracking>>]
                 ELSE [status |-> "Processing", shipped_date |-> <<>>,
                       tracking_number |-> <<>>]

\* int(pct/100 * n): for every n below 400 the float product truncates to
\* the integer quotient
IntOfShare(pct, n) == (pct * n) \div 100

\* Counter(o["status"] for o in orders)[status]
Count(os, status) == Cardinality({i \in 1..Len(os) : os[i].status = status})

RECURSIVE SortRecentFirst(_, _)
\* the positions idxs of os sorted by order_date, reverse=True: latest date
\* first, equal dates in their order in the list
SortRecentFirst(os, idxs) ==
    IF idxs = {} THEN <<>>
    ELSE LET m == CHOOSE i \in idxs :
                     \A j \in idxs :
                        \/ os[j].order_date < os[i].order_date
                        \/ os[j].order_date = os[i].order_date /\ j >= i
         IN  <<m>> \o SortRecentFirst(os, idxs \ {m})

\* seq[i] of a Python list, i counted from 0 and, when negative, from the end
PyIndex(seq, i) == IF i >= 0 THEN seq[i + 1] ELSE seq[Len(seq) + i + 1]

\* range(n) and range(a, b) are empty when they would run backwards
Min(a, b) == IF a <= b THEN a ELSE b

ToShipped(o, current_date, days) ==
    [o EXCEPT !.status = "Shipped",
              !.shipped_date = <<current_date - days>>,
              !.tracking_number = IF @ = <<>> THEN <<Tracking>> ELSE @]

\* the conversion to Processing leaving the shipped date in place
ToProcessing_KeepsShippedDate(o, current_date, days) ==
    [o EXCEPT !.order_date = current_date - days,
              !.status = "Processing",
              !.tracking_number = <<>>]

ToProcessing(o, current_date, days) ==
    [o EXCEPT !.order_date = current_date - days,
              !.status = "Processing",
              !.shipped_date = <<>>,
              !.tracking_number = <<>>]

ToCancelled(o) ==
    [o EXCEPT !.status = "Cancelled", !.shipped_date = <<>>, !.tracking_number = <<>>]

RECURSIVE ShippedLoop(_, _, _, _, _, _)
\* for i in range(min(num_shipped_needed, len(delivered_orders)))
ShippedLoop(os, delivered_orders, i, stop, draws, current_date) ==
    IF i >= stop THEN os
    ELSE ShippedLoop([os EXCEPT ![PyIndex(delivered_orders, i)] =
                                    ToShipped(@, current_date, draws[i + 1])],
                     delivered_orders, i + 1, stop, draws, current_date)

RECURSIVE ProcessingLoop(_, _, _, _, _, _, _)
\* for i in range(start_idx, start_idx + num_processing_needed)
ProcessingLoop(os, delivered_orders, i, start_idx, stop, draws, current_date) ==
    IF i >= stop THEN os
    ELSE ProcessingLoop(
             IF i < Len(delivered_orders)
             THEN [os EXCEPT ![PyIndex(delivered_orders, i)] =
                                 ToProcessing(@, current_date, draws[i - start_idx + 1])]
             ELSE os,
             delivered_orders, i + 1, start_idx, stop, draws, current_date)

RECURSIVE CancelledLoop(_, _, _, _)
\* for i in range(start_idx, start_idx + num_cancelled_needed)
CancelledLoop(os, delivered_orders, i, stop) ==
    IF i >= stop THEN os
    ELSE CancelledLoop(
             IF i < Len(delivered_orders)
             THEN [os EXCEPT ![PyIndex(delivered_orders, i)] = ToCancelled(@)]
             ELSE os,
             delivered_orders, i + 1, stop)

\* how many values the two loops that draw from random take
ShippedDraws(os) ==
    LET n == IntOfShare(12, Len(os)) - Count(os, "Shipped")
        m == Min(n, Count(os, "Delivered"))
    IN  IF Count(os, "Delivered") > IntOfShare(80, Len(os)) /\ m > 0 THEN m ELSE 0

ProcessingDraws(os) ==
    LET n == IntOfShare(7, Len(os)) - Count(os, "Processing")
    IN  IF Count(os, "Delivered") > IntOfShare(80, Len(os)) /\ n > 0 THEN n ELSE 0

\* adjust_status_distribution; the orders are changed in place, so the list
\* returned holds them in the places they had
adjust_status_distribution(os, current_date, ship_draws, recent_draws) ==
    LET target_delivered == IntOfShare(80, Len(os))
        target_shipped == IntOfShare(12, Len(os))
        target_processing == IntOfShare(7, Len(os))
        target_cancelled ==
            Len(os) - target_delivered - target_shipped - target_processing
    IN  IF Count(os, "Delivered") > target_delivered
        THEN LET delivered_orders ==
                     SortRecentFirst(os, {i \in 1..Len(os) : os[i].status = "Delivered"})
                 num_shipped_needed == target_shipped - Count(os, "Shipped")
                 os1 == ShippedLoop(os, delivered_orders, 0,
                                    Min(num_shipped_needed, Len(delivered_orders)),
                                    ship_draws, current_date)
                 num_processing_needed == target_processing - Count(os, "Processing")
                 os2 == ProcessingLoop(os1, delivered_orders, num_shipped_needed,
                                       num_shipped_needed,
                                       num_shipped_needed + num_processing_needed,
                                       recent_draws, current_date)
                 num_cancelled_needed == target_cancelled - Count(os, "Cancelled")
                 start_idx == num_shipped_needed + num_processing_needed
             IN  CancelledLoop(os2, delivered_orders, start_idx,
                               start_idx + num_cancelled_needed)
        ELSE os

\* sorting key that groups the lists explored: date, then status, then
\* shipped date
StatusRank(status) ==
    CASE status = "Cancelled" -> 1
      [] status = "Processing" -> 2
      [] status = "Shipped" -> 3
      [] status = "Delivered" -> 4

NotBefore(o, p) ==
    \/ o.order_date > p.order_date
    \/ /\ o.order_date = p.order_date
       /\ \/ StatusRank(o.status) > StatusRank(p.status)
          \/ o.status = p.status /\ o.shipped_date = p.shipped_date
          \/ /\ o.status = p.status
             /\ o.shipped_date # <<>>
             /\ p.shipped_date # <<>>
             /\ o.shipped_date[1] > p.shipped_date[1]

OrdersInit ==
    /\ GraphIdle
    /\ vcalls = 0
    /\ sqlin = <<>>
    /\ sqlret = NotCalled
    /\ DbIdle
    /\ orders = <<>>
    /\ adjusted = FALSE

\* generate_orders: the status of one more order is calculated and the order
\* joins the list.  adjust_status_distribution goes by the status and the
\* date of the orders, not by their place in the list, so the lists explored
\* hold like orders side by side, earlier order dates first.
GenerateOrder ==
    /\ ~adjusted
    /\ Len(orders) < MaxOrders
    /\ \E days \in OrderDaysAgo :
       \E r \in [cancel : BOOLEAN, processing : BOOLEAN, ship_delay : ShipDelays] :
          LET order_date == CURRENT_DATE - days
              status_info == calculate_order_status(order_date, CURRENT_DATE, r)
              order == [order_id |-> Len(orders) + 1,
                        order_date |-> order_date,
                        status |-> status_info.status,
                        shipped_date |-> status_info.shipped_date,
                        tracking_number |-> status_info.tracking_number]
          IN  /\ orders # <<>> => NotBefore(order, orders[Len(orders)])
              /\ orders' = Append(orders, order)
    /\ UNCHANGED <<graph, vcalls, sqlVars, dbVars, adjusted>>

\* orders = adjust_status_distribution(orders, current_date)
AdjustStatusDistribution ==
    /\ ~adjusted
    /\ orders # <<>>
    /\ \E ship_draws \in [1..ShippedDraws(orders) -> 1..7] :
       \E recent_draws \in [1..ProcessingDraws(orders) -> 0..5] :
          orders' = adjust_status_distribution(orders, CURRENT_DATE, ship_draws,
                                               recent_draws)
    /\ adjusted' = TRUE
    /\ UNCHANGED <<graph, vcalls, sqlVars, dbVars>>

OrdersNext ==
    \/ GenerateOrder
    \/ AdjustStatusDistribution

OrdersSpec == OrdersInit /\ [][OrdersNext]_vars

---------------------------------------------------------------------------
(* Properties *)

\* the engine is about to run node n
AtNode(n) == run = "running" /\ next = n

CidSet(st) == "customer_id" \in DOMAIN st

Registered(email, db) == \E r \in db : r.email = email

RowOf(email, db) == CHOOSE r \in db : r.email = email

\* C1: whenever query_router runs on a state whose customer_id is set, it
\* goes straight to supervisor_agent and calls the classification oracle
\* zero times.
C1_RouterSkipsWhenVerified ==
    [][ (AtNode("query_router") /\ CidSet(state)) =>
          /\ last'.node = "query_router"
          /\ last'.calls.classify = <<>>
          /\ ~last'.raised
          /\ last'.goto = "supervisor_agent"
          /\ AtNode("supervisor_agent")' ]_vars

C1_Witness ==
    /\ last.node = "query_router"
    /\ CidSet(state)
    /\ last.goto = "supervisor_agent"

\* C2: once customer_id is set, no later step of the conversation calls the
\* classification oracle or runs verify_customer or collect_email.
C2_NoReverification ==
    [][ CidSet(state) =>
          /\ last'.calls.classify = <<>>
          /\ last'.node \notin {"verify_customer", "collect_email"}
          /\ next' \notin {"verify_customer", "collect_email"} ]_vars

\* a later turn of a verified conversation was answered: the answer follows
\* the turn's message directly
C2_Witness ==
    /\ CidSet(state)
    /\ last.node = "supervisor_agent"
    /\ ~last.raised
    /\ Len(state.messages) >= 2
    /\ state.messages[Len(state.messages) - 1].type = "human"

\* the lookup verify_customer made in the step just taken found a row
LookupSucceeded ==
    /\ last.calls.queries # <<>>
    /\ Registered(last.calls.queries[1], store)

\* C3: a verify_customer invocation that returns goes to supervisor_agent
\* only if its store lookup succeeded, and then it writes customer_id in
\* that step; in every other outcome it goes to collect_email and writes no
\* customer_id.  (An invocation that raises takes no transition at all.)
C3_VerifyNeverBypassed ==
    [][ AtNode("verify_customer") =>
          /\ last'.node = "verify_customer"
          /\ last'.raised => UNCHANGED <<state, next>> /\ run' = "error"
          /\ ~last'.raised =>
                /\ run' = "running"
                /\ next' \in {"supervisor_agent", "collect_email"}
                /\ next' = "supervisor_agent" <=> LookupSucceeded'
                /\ next' = "supervisor_agent" =>
                      /\ "customer_id" \in DOMAIN last'.update
                      /\ CidSet(state')
                      /\ state'.customer_id = RowOf(last'.calls.queries[1], store).customer_id
                /\ next' = "collect_email" =>
                      /\ "customer_id" \notin DOMAIN last'.update
                      /\ ~CidSet(state') ]_vars

\* verification succeeded after at least one round through collect_email
C3_Witness ==
    /\ last.node = "verify_customer"
    /\ last.goto = "supervisor_agent"
    /\ Len(state.messages) >= 4
    /\ state.messages[Len(state.messages) - 1].type = "human"
    /\ state.messages[Len(state.messages) - 2].type = "ai"

\* C4: with customer_id unset, query_router classifies the latest message
\* and, when the oracle answers, goes to verify_customer if and only if the
\* answer's requires_verification flag is true, and to supervisor_agent
\* otherwise.
C4_RouterFollowsClassification ==
    [][ (AtNode("query_router") /\ ~CidSet(state)) =>
          /\ last'.node = "query_router"
          /\ Len(last'.calls.classify) = 1
          /\ last'.calls.classify[1].query = state.messages[Len(state.messages)].content
          /\ last'.calls.classify[1].ret # Raise =>
                LET answer == last'.calls.classify[1].ret
                    flag == /\ "requires_verification" \in DOMAIN answer
                            /\ answer.requires_verification
                IN  /\ run' = "running"
                    /\ flag => next' = "verify_customer"
                    /\ ~flag => next' = "supervisor_agent" ]_vars

C4_Witness ==
    /\ last.node = "query_router"
    /\ last.calls.classify # <<>>
    /\ last.calls.classify[1].ret # Raise
    /\ last.goto = "verify_customer"

\* the email the extraction oracle returned in the step just taken
\* (<<>> when it returned none or raised)
Extracted ==
    IF /\ last.calls.extract # <<>>
       /\ last.calls.extract[1].ret # Raise
       /\ "email" \in DOMAIN last.calls.extract[1].ret
    THEN last.calls.extract[1].ret.email
    ELSE <<>>

\* C5: when extraction returns a registered email (and the lookup does not
\* fail), verify_customer sets customer_id to that customer's identifier,
\* appends exactly one assistant welcome message naming that customer, and
\* the next node is supervisor_agent.
C5_RegisteredEmailVerifies ==
    [][ (AtNode("verify_customer") /\ Registered(Extracted', store) /\ ~last'.raised) =>
          LET row == RowOf(Extracted', store)
          IN  /\ CidSet(state')
              /\ state'.customer_id = row.customer_id
              /\ state'.messages =
                    Append(state.messages,
                           [type |-> "ai",
                            content |-> <<"Verified! Welcome back, ">> \o row.name \o <<".">>])
              /\ AtNode("supervisor_agent")' ]_vars

C5_Witness ==
    /\ last.node = "verify_customer"
    /\ Extracted = EmailSarah
    /\ CidSet(state)
    /\ state.customer_id = "CUST-001"
    /\ next = "supervisor_agent"

\* C6: when extraction returns an email that is not in the customer store,
\* verify_customer's next node is collect_email, exactly one new assistant
\* message, the "not found" report, is appended, and customer_id stays unset.
C6_UnknownEmailAsksAgain ==
    [][ (/\ AtNode("verify_customer")
         /\ Extracted' # <<>>
         /\ ~Registered(Extracted', store)
         /\ ~last'.raised) =>
          /\ state'.messages =
                Append(state.messages,
                       [type |-> "ai",
                        content |-> <<"I couldn't find '">> \o Extracted'
                           \o <<"' in our system. Please check and try again.">>])
          /\ ~CidSet(state')
          /\ AtNode("collect_email")' ]_vars

C6_Witness ==
    /\ last.node = "verify_customer"
    /\ Extracted = EmailOther
    /\ ~Registered(EmailOther, store)
    /\ last.calls.queries = <<EmailOther>>
    /\ next = "collect_email"

\* the extraction oracle answered, and its answer holds no email
ExtractedNothing ==
    /\ last.calls.extract # <<>>
    /\ last.calls.extract[1].ret # Raise
    /\ "email" \in DOMAIN last.calls.extract[1].ret
    /\ last.calls.extract[1].ret.email = <<>>

\* C7: when extraction returns the empty string, verify_customer's next
\* node is collect_email, the one message appended is the assistant's
\* request for an email address, validate_customer_email is not called, no
\* store lookup is made, and customer_id stays unset.
C7_NoEmailAsksForOne ==
    [][ (AtNode("verify_customer") /\ ExtractedNothing') =>
          /\ ~last'.raised
          /\ state'.messages =
                Append(state.messages,
                       [type |-> "ai",
                        content |-> <<"To access information about your account or orders, please provide your email address.">>])
          /\ last'.calls.validate = <<>>
          /\ last'.calls.connects = 0
          /\ last'.calls.queries = <<>>
          /\ ~CidSet(state')
          /\ AtNode("collect_email")' ]_vars

C7_Witness ==
    /\ last.node = "verify_customer"
    /\ ExtractedNothing
    /\ next = "collect_email"
    /\ run = "running"

\* C8: for every argument of validate_customer_email that is empty or holds
\* no "@", the result is None and no connection to the store is opened and
\* no query is executed.
C8_FormatCheckBeforeLookup ==
    (vout # NotCalled /\ (Len(vin) = 0 \/ \A i \in 1..Len(vin) : vin[i] # "@")) =>
        /\ vout.result = None
        /\ vout.connects = 0
        /\ vout.queries = <<>>

\* a text that lacks only the "@" of a registered email was rejected
C8_Witness ==
    /\ vin = <<"sarah.chen", "gmail.com">>
    /\ Registered(EmailSarah, store)
    /\ vout # NotCalled
    /\ vout.result = None

\* C9: a conversation that has entered collect_email makes no progress
\* until a resume input arrives: entering the node only records the pending
\* prompt, and the one step out of the suspended conversation is a resume
\* that carries the host's input.
C9_SuspendedUntilResume ==
    [][ /\ AtNode("collect_email") =>
              /\ run' = "interrupted"
              /\ interrupts' = <<"Please provide your email:">>
              /\ UNCHANGED <<state, next>>
        /\ run = "interrupted" =>
              /\ next = "collect_email"
              /\ last'.node = "collect_email"
              /\ last'.input \in UserTexts
              /\ interrupts' = <<>> ]_vars

C9_Witness ==
    /\ run = "interrupted"
    /\ next = "collect_email"
    /\ interrupts = <<"Please provide your email:">>
    /\ last.node = "collect_email"
    /\ last.input = <<>>

\* C10: when a conversation suspended at collect_email is resumed with a
\* text, exactly that text is appended as one user message, nothing else
\* of the state changes, and the next node executed is verify_customer.
C10_ResumeAppendsInput ==
    [][ /\ run = "interrupted" =>
              /\ state'.messages =
                    Append(state.messages, [type |-> "human", content |-> last'.input])
              /\ CidSet(state') = CidSet(state)
              /\ AtNode("verify_customer")'
        /\ (last.node = "collect_email" /\ last.input # <<>>) =>
              last'.node = "verify_customer" ]_vars

C10_Witness ==
    /\ last.node = "collect_email"
    /\ last.input = EmailSarah
    /\ state.messages[Len(state.messages)] = [type |-> "human", content |-> EmailSarah]
    /\ next = "verify_customer"

\* customer_id was already set when the current turn started: it is set, and
\* no step of the turn wrote it
CidAtTurnStart ==
    /\ CidSet(state)
    /\ \A i \in 1..Len(trace) : "customer_id" \notin DOMAIN trace[i].update

\* the answers the oracles gave at step i of the turn (none when not asked)
ClassifiedAt(i) == {c.ret : c \in {trace[i].calls.classify[j] : j \in 1..Len(trace[i].calls.classify)}}

ExtractedAt(i) == {c.ret : c \in {trace[i].calls.extract[j] : j \in 1..Len(trace[i].calls.extract)}}

\* the inputs of the scenario, as far as the turn has got: customer_id unset
\* at the start, the classifier says verification is required, the first
\* extraction finds no email, the human answers the prompt with a registered
\* email, the second extraction returns that email, and no lookup fails
ScenarioInputs ==
    /\ Len(trace) >= 1
    /\ ~CidAtTurnStart
    /\ Len(trace) >= 2 =>
          \A a \in ClassifiedAt(2) :
              a = [reasoning |-> "r", requires_verification |-> TRUE]
    /\ Len(trace) >= 3 => \A a \in ExtractedAt(3) : a = [email |-> <<>>]
    /\ Len(trace) >= 5 =>
          (trace[5].input = <<>> \/ Registered(trace[5].input, store))
    /\ Len(trace) >= 6 =>
          /\ \A a \in ExtractedAt(6) : a = [email |-> trace[5].input]
          /\ ~trace[6].raised
    /\ Len(trace) >= 7 => ~trace[7].raised

ScenarioNodes ==
    <<"START", "query_router", "verify_customer", "collect_email", "collect_email",
      "verify_customer", "supervisor_agent">>

\* C11: for a conversation without customer_id whose message is classified
\* as requiring verification and yields no email, the turn runs
\* query_router, verify_customer, collect_email and suspends with the
\* prompt "Please provide your email:"; resumed with a registered email it
\* runs verify_customer, which sets that customer's identifier, then
\* supervisor_agent, and ends.
C11_ScenarioVerifyAfterPrompt ==
    ScenarioInputs =>
        /\ Len(trace) <= 7
        /\ \A i \in 1..Len(trace) : trace[i].node = ScenarioNodes[i]
        /\ Len(trace) = 1 => AtNode("query_router")
        /\ Len(trace) = 2 => AtNode("verify_customer")
        /\ Len(trace) = 3 => AtNode("collect_email") /\ ~CidSet(state)
        /\ Len(trace) = 4 =>
              /\ run = "interrupted"
              /\ next = "collect_email"
              /\ interrupts = <<"Please provide your email:">>
              /\ ~CidSet(state)
        /\ Len(trace) >= 5 => trace[5].input # <<>>
        /\ Len(trace) = 5 => AtNode("verify_customer")
        /\ Len(trace) >= 6 =>
              /\ CidSet(state)
              /\ state.customer_id = RowOf(trace[5].input, store).customer_id
        /\ Len(trace) = 6 => AtNode("supervisor_agent")
        /\ Len(trace) = 7 => run = "idle" /\ next = "END"

C11_Witness ==
    /\ ScenarioInputs
    /\ Len(trace) = 7
    /\ trace[1].input = QueryText
    /\ trace[5].input = EmailSarah
    /\ trace[7].node = "supervisor_agent"
    /\ CidSet(state)
    /\ state.customer_id = "CUST-001"
    /\ run = "idle"

\* C12: query_router never updates the conversation state: messages and
\* customer_id are the same before and after the route step, so a query
\* classified as not requiring verification reaches supervisor_agent with
\* customer_id still unset, and the responder is told no customer id.
C12_RouterLeavesStateAlone ==
    [][ /\ AtNode("query_router") =>
              /\ state' = state
              /\ DOMAIN last'.update = {}
              /\ (/\ ~CidSet(state)
                  /\ Len(last'.calls.classify) = 1
                  /\ last'.calls.classify[1].ret =
                        [reasoning |-> "r", requires_verification |-> FALSE]) =>
                    /\ AtNode("supervisor_agent")'
                    /\ ~CidSet(state')
        /\ (AtNode("supervisor_agent") /\ last.node = "query_router" /\ ~CidSet(state)) =>
              Len(last'.prompt) = 1 ]_vars

\* a query classified as not needing verification was answered, and the
\* conversation still has no customer_id
C12_Witness ==
    /\ Len(trace) = 3
    /\ trace[2].node = "query_router"
    /\ Len(trace[2].calls.classify) = 1
    /\ trace[2].calls.classify[1].ret = [reasoning |-> "r", requires_verification |-> FALSE]
    /\ trace[3].node = "supervisor_agent"
    /\ ~trace[3].raised
    /\ ~CidSet(state)
    /\ state.messages = <<HumanMessage(trace[1].input), AIMessage(<<"answer">>)>>

\* C13: a conversation starts without customer_id, and customer_id only
\* ever takes the identifier the customer store returned for the email
\* extracted from a user message of the conversation; the responder is told
\* exactly the customer_id of the state, and none when it is unset.
C13_NoFabricatedCustomerId ==
    [][ /\ (/\ CidSet(state')
            /\ (CidSet(state) => state'.customer_id # state.customer_id)) =>
              /\ last'.node = "verify_customer"
              /\ Len(last'.calls.extract) = 1
              /\ last'.calls.extract[1].message = state.messages[Len(state.messages)]
              /\ last'.calls.extract[1].message.type = "human"
              /\ Extracted' # <<>>
              /\ last'.calls.queries = <<Extracted'>>
              /\ Registered(Extracted', store)
              /\ state'.customer_id = RowOf(Extracted', store).customer_id
        /\ AtNode("supervisor_agent") =>
              last'.prompt =
                 IF CidSet(state)
                 THEN <<"You are a supervisor agent for TechHub customer support.",
                        "The customer's ID in this conversation is: ", state.customer_id>>
                 ELSE <<"You are a supervisor agent for TechHub customer support.">> ]_vars

\* the second customer of a two-row table was verified and the responder
\* was given that customer's id
C13_Witness ==
    /\ Cardinality(store) = 2
    /\ CidSet(state)
    /\ state.customer_id = "CUST-002"
    /\ last.node = "supervisor_agent"
    /\ Len(last.prompt) = 3
    /\ last.prompt[3] = "CUST-002"

\* C14: if the classification call fails or returns malformed output (a
\* result without the requires_verification field), query_router surfaces a
\* failure and takes no routing decision: no node is scheduled and the
\* state is unchanged.
C14_ClassifierFailureStopsRouting ==
    [][ (/\ AtNode("query_router")
         /\ Len(last'.calls.classify) = 1
         /\ \/ last'.calls.classify[1].ret = Raise
            \/ "requires_verification" \notin DOMAIN last'.calls.classify[1].ret) =>
          /\ last'.raised
          /\ run' = "error"
          /\ UNCHANGED <<state, next>> ]_vars

\* the extraction call fails, or the lookup it leads to fails
VerifyFails(e, dbUp) ==
    \/ e = Raise
    \/ /\ "email" \in DOMAIN e
       /\ \E i \in 1..Len(e.email) : e.email[i] = "@"
       /\ ~dbUp

\* C15: if the extraction call or the customer-store lookup fails during
\* verify_customer, the node raises instead of returning a Command (no
\* "not found" message, no transition), and the engine leaves the state,
\* customer_id included, and the scheduled node as they were: the failure
\* reaches the host as an error.
C15_VerifyFailureIsAnError ==
    /\ [](AtNode("verify_customer") =>
            \A e \in ExtractOutcomes, dbUp \in BOOLEAN :
                VerifyFails(e, dbUp) => verify_customer(state, e, store, dbUp).cmd = Raise)
    /\ [][ (AtNode("verify_customer") /\ last'.raised) =>
              /\ run' = "error"
              /\ UNCHANGED <<state, next, interrupts>> ]_vars

\* the lookup of a registered email failed, and the thread stopped in error
C15_Witness ==
    /\ last.node = "verify_customer"
    /\ last.raised
    /\ last.calls.queries # <<>>
    /\ Registered(last.calls.queries[1], store)
    /\ run = "error"
    /\ next = "verify_customer"
    /\ ~CidSet(state)

\* C18: no operation of the verification graph modifies the customer
\* store: the table is the same before and after every step, whatever
\* lookups the step made.
C18_StoreIsOnlyRead == [][store' = store]_vars

\* lookups were made against a full table, for a known and for an unknown
\* address at least, and the conversation went on
C18_Witness ==
    /\ store = Customers
    /\ last.node = "verify_customer"
    /\ last.calls.connects = 1
    /\ last.calls.queries # <<>>
    /\ Len(state.messages) >= 6

GraphTransitions ==
    { <<"query_router", "verify_customer">>,
      <<"query_router", "supervisor_agent">>,
      <<"verify_customer", "supervisor_agent">>,
      <<"verify_customer", "collect_email">>,
      <<"collect_email", "verify_customer">> }

\* C19: every node-to-node transition is one of route->verify,
\* route->respond, verify->respond, verify->collect, collect->verify; every
\* new turn enters at query_router, and supervisor_agent has no successor:
\* when it returns, the invocation is over.
C19_OnlyGraphTransitions ==
    [][ /\ run = "idle" =>
              /\ last'.node = "START"
              /\ AtNode("query_router")'
        /\ (run = "running" /\ next # "supervisor_agent" /\ run' = "running") =>
              /\ last'.node = next
              /\ <<next, next'>> \in GraphTransitions
        /\ (run = "running" /\ run' = "interrupted") =>
              /\ next = "collect_email"
              /\ next' = "collect_email"
        /\ run = "interrupted" =>
              /\ last'.node = "collect_email"
              /\ <<next, next'>> = <<"collect_email", "verify_customer">>
        /\ AtNode("supervisor_agent") =>
              \/ last'.raised /\ run' = "error" /\ next' = next
              \/ run' = "idle" /\ next' = "END"
        /\ run' = "running" =>
              next' \in {"query_router", "verify_customer", "collect_email",
                         "supervisor_agent"} ]_vars

\* a turn that went twice round the verify/collect loop before it was
\* answered
C19_Witness ==
    /\ Len(trace) = 10
    /\ \A i \in 1..10 :
          trace[i].node =
             <<"START", "query_router", "verify_customer", "collect_email",
               "collect_email", "verify_customer", "collect_email", "collect_email",
               "verify_customer", "supervisor_agent">>[i]
    /\ run = "idle"
    /\ next = "END"

\* messages an alternative history may hold before the latest message
EarlierMessages ==
    { [type |-> "human", content |-> EmailSarah],
      [type |-> "human", content |-> EmailOther],
      [type |-> "ai", content |-> <<"answer">>] }

\* the states that differ from st only in the messages before the latest
EarlierVariants(st) ==
    { [st EXCEPT !.messages = pre \o <<st.messages[Len(st.messages)]>>] :
        pre \in UNION {[1..n -> EarlierMessages] : n \in 0..MaxEarlier} }

\* C20: verify_customer's outcome depends only on the latest message and
\* the customer store: on two states that differ only in earlier messages
\* it returns, for the same oracle answer, the same transition and update
\* and makes the same calls; the extractor sees the latest message alone and
\* only what it returned is validated, so an address that appears only in
\* an earlier message is never used.
C20_VerifyReadsLatestMessageOnly ==
    AtNode("verify_customer") =>
        \A e \in ExtractOutcomes, dbUp \in BOOLEAN :
            LET here == verify_customer(state, e, store, dbUp)
            IN  /\ \A st2 \in EarlierVariants(state) :
                      verify_customer(st2, e, store, dbUp) = here
                /\ Len(here.calls.extract) = 1
                /\ here.calls.extract[1].message = state.messages[Len(state.messages)]
                /\ \A i \in 1..Len(here.calls.validate) :
                      /\ "email" \in DOMAIN e
                      /\ here.calls.validate[i] = e.email

\* verify_customer ran on a query that holds no address, in a conversation
\* whose earlier message holds a registered one, and asked for an email
C20_Witness ==
    /\ last.node = "verify_customer"
    /\ Len(last.calls.extract) = 1
    /\ last.calls.extract[1].message = [type |-> "human", content |-> QueryText]
    /\ last.calls.extract[1].ret = [email |-> <<>>]
    /\ Registered(EmailSarah, store)
    /\ \E i \in 1..(Len(state.messages) - 2) :
          state.messages[i] = [type |-> "human", content |-> EmailSarah]
    /\ ~CidSet(state)
    /\ next = "collect_email"

OutcomesCoverNext ==
    [][\E o \in Outcomes(Thread(state, next, run, interrupts), store, UserTexts, MaxMsgs) :
          /\ o.conv = Thread(state', next', run', interrupts')
          /\ o.step = last'
          /\ Commit(store, o.changes) = store']_vars

\* C17: for any interleaving of the steps of two conversations, a step of
\* one never changes the other's messages, customer_id, scheduled node or
\* pending interrupt, and the customer store, the one thing both touch, is
\* never changed.
C17_ConversationsAreIsolated ==
    [][ /\ actor' = "a" => peer' = peer
        /\ actor' = "b" => UNCHANGED <<state, next, run, interrupts>>
        /\ actor' \in {"a", "b"}
        /\ store' = store ]_vars

\* one conversation was verified while the other, started before it, is
\* still waiting for an email
C17_Witness ==
    /\ actor = "b"
    /\ CidSet(peer.state)
    /\ peer.state.customer_id = "CUST-002"
    /\ run = "interrupted"
    /\ next = "collect_email"
    /\ ~CidSet(state)
    /\ state.messages[1] # peer.state.messages[1]

\* C21: with nothing else writing to the customer store, every call of
\* validate_customer_email with a registered email that returns at all
\* returns the customer_id and name of the one row holding that email, the
\* same as every completed call before it, and leaves the store as it was.
C21_ValidationIsIdempotent ==
    [][ /\ (Registered(vin, store) /\ vout'.result # Raise) =>
               /\ vout'.result = CustomerInfo(RowOf(vin, store).customer_id,
                                              RowOf(vin, store).name)
               /\ store' = store
        /\ (vout # NotCalled /\ vout.result \notin {None, Raise} /\ vout'.result # Raise) =>
               vout'.result = vout.result ]_vars

\* the registered email was validated MaxCalls times and the last call
\* returned Sarah Chen's pair
C21_Witness ==
    /\ vcalls = MaxCalls
    /\ vin = EmailSarah
    /\ Registered(vin, store)
    /\ vout # NotCalled
    /\ vout.result = CustomerInfo("CUST-001", <<"Sarah Chen">>)

\* the first token of the query that is not whitespace is SELECT in some case
BeginsWithSelect(q) ==
    \E i \in 1..Len(q) :
        /\ \A j \in 1..(i - 1) : q[j] = " "
        /\ UpperOf(q[i])[1] = "SELECT"

\* one of the eight keywords stands somewhere in the query, in some case
MentionsForbidden(q) ==
    \E i \in 1..Len(q) : \E j \in 1..Len(UpperOf(q[i])) :
        UpperOf(q[i])[j] \in {"INSERT", "UPDATE", "DELETE", "ALTER", "DROP", "CREATE",
                              "REPLACE", "TRUNCATE"}

\* C22: execute_sql gives a query to the database only if the query,
\* ignoring case and surrounding whitespace, starts with SELECT and holds
\* none of the eight forbidden keywords anywhere; for every other query it
\* returns an error string, without asking for the database connection and
\* without executing anything.
C22_OnlyCleanSelectsReachDatabase ==
    sqlret # NotCalled =>
        /\ sqlret.executed # <<>> => (BeginsWithSelect(sqlin) /\ ~MentionsForbidden(sqlin))
        /\ ~(BeginsWithSelect(sqlin) /\ ~MentionsForbidden(sqlin)) =>
               /\ sqlret.result \in {OnlySelect, ForbiddenKeyword}
               /\ sqlret.get_database = 0
               /\ sqlret.executed = <<>>

\* a query that starts with a lower-case select and names a forbidden
\* keyword in lower case was turned down
C22_Witness ==
    /\ sqlin = <<" ", "select", "drop">>
    /\ sqlret # NotCalled
    /\ sqlret.result = ForbiddenKeyword
    /\ sqlret.executed = <<>>

\* C23: when extraction returns a non-empty string with no "@" in it,
\* verify_customer does not fail: it appends the "couldn't find ... in our
\* system" assistant message, the next node is collect_email, the store was
\* not connected to or queried, and customer_id stays unset.
C23_MalformedEmailAsksAgain ==
    [][ (/\ AtNode("verify_customer")
         /\ Extracted' # <<>>
         /\ \A i \in 1..Len(Extracted') : Extracted'[i] # "@") =>
          /\ ~last'.raised
          /\ run' = "running"
          /\ next' = "collect_email"
          /\ state'.messages =
                Append(state.messages,
                       [type |-> "ai",
                        content |-> <<"I couldn't find '">> \o Extracted'
                           \o <<"' in our system. Please check and try again.">>])
          /\ last'.calls.connects = 0
          /\ last'.calls.queries = <<>>
          /\ store' = store
          /\ ~CidSet(state') ]_vars

\* verify_customer was given Sarah Chen's address without its "@", with her
\* row in the store, and asked again
C23_Witness ==
    /\ last.node = "verify_customer"
    /\ Extracted = Malformed
    /\ Registered(EmailSarah, store)
    /\ last.calls.validate = <<Malformed>>
    /\ last.calls.connects = 0
    /\ next = "collect_email"
    /\ run = "running"

\* the step of the current turn that brought the latest human input: the
\* START of the turn or the latest resume of collect_email
InvocationStart ==
    CHOOSE k \in 1..Len(trace) :
        /\ trace[k].input # <<>>
        /\ \A j \in (k + 1)..Len(trace) : trace[j].input = <<>>

\* C24: every invocation of the graph, a new turn or a resume, runs at most
\* three node steps after taking its input; when it has ended and nothing
\* was raised, it has ended after the specialist responder or suspended at
\* collect_email; and between any two runs of verify_customer in a turn
\* there is a resume with a human input.
C24_InvocationsEnd ==
    /\ trace # <<>> => Len(trace) - InvocationStart <= 3
    /\ (run = "idle" /\ trace # <<>>) => (last.node = "supervisor_agent" /\ ~last.raised)
    /\ run = "interrupted" => (next = "collect_email" /\ last.node = "collect_email")
    /\ run = "error" => last.raised
    /\ \A i \in 1..Len(trace) : \A j \in (i + 1)..Len(trace) :
          (trace[i].node = "verify_customer" /\ trace[j].node = "verify_customer") =>
              \E k \in (i + 1)..(j - 1) :
                  trace[k].node = "collect_email" /\ trace[k].input # <<>>

\* the verify/collect loop went round twice in one turn, each time on a new
\* human input, and the conversation is suspended again
C24_Witness ==
    /\ run = "interrupted"
    /\ Len(trace) >= 9
    /\ Cardinality({i \in 1..Len(trace) : trace[i].node = "verify_customer"}) = 3
    /\ Cardinality({i \in 1..Len(trace) :
                       trace[i].node = "collect_email" /\ trace[i].input # <<>>}) = 2

\* in the current turn the router asked the classifier and was told that
\* the query requires verification
NeedsIdentity ==
    \E i \in 1..Len(trace) :
        /\ trace[i].node = "query_router"
        /\ \E a \in ClassifiedAt(i) :
              "requires_verification" \in DOMAIN a /\ a.requires_verification = TRUE

\* C25: whenever the specialist responder is about to run or has run in a
\* turn whose classification returned requires_verification = true,
\* customer_id is set, and set to the identifier of a row of the customer
\* store.
C25_IdentityBeforeResponder ==
    ((AtNode("supervisor_agent") \/ last.node = "supervisor_agent") /\ NeedsIdentity) =>
        /\ CidSet(state)
        /\ \E r \in store : r.customer_id = state.customer_id

\* a query that required verification was answered after the customer was
\* asked for an email and gave a registered one
C25_Witness ==
    /\ last.node = "supervisor_agent"
    /\ ~last.raised
    /\ NeedsIdentity
    /\ \E i \in 1..Len(trace) : trace[i].node = "collect_email" /\ trace[i].input = EmailOther
    /\ CidSet(state)
    /\ state.customer_id = "CUST-002"

\* C26: once customer_id is set, no step of the graph writes it again: it
\* stays set, keeps its value, and no later node returns an update that
\* holds the key, however many turns follow.
C26_CustomerIdWrittenOnce ==
    [][ CidSet(state) =>
          /\ CidSet(state')
          /\ state'.customer_id = state.customer_id
          /\ "customer_id" \notin DOMAIN last'.update ]_vars

\* a customer verified in an earlier turn sent another customer's email in
\* a new turn and was answered under the identity verified before
C26_Witness ==
    /\ CidAtTurnStart
    /\ state.customer_id = "CUST-001"
    /\ Len(trace) = 3
    /\ trace[1].input = EmailOther
    /\ last.node = "supervisor_agent"
    /\ run = "idle"

\* C27: whenever verify_customer is about to run, the last message of the
\* state is a user message, the turn's query or the text collect_email has
\* just collected, and never a prompt an earlier verify_customer appended.
C27_VerifySeesUserMessage ==
    AtNode("verify_customer") =>
        /\ state.messages # <<>>
        /\ LastMessage(state).type = "human"
        /\ LastMessage(state).content = trace[InvocationStart].input

\* verify_customer is about to run on the text collected after its own
\* earlier request for an email
C27_Witness ==
    /\ AtNode("verify_customer")
    /\ last.node = "collect_email"
    /\ last.input = EmailSarah
    /\ Len(state.messages) >= 3
    /\ state.messages[Len(state.messages) - 1] = [type |-> "ai", content |-> AskEmail]
    /\ LastMessage(state) = [type |-> "human", content |-> EmailSarah]

\* every instance get_database has returned so far
Returned == UNION {{got[t][i] : i \in 1..Len(got[t])} : t \in DOMAIN got}

\* C28: under any interleaving of calls of get_database, at most one
\* SQLDatabase connection is ever created and every call returns that one
\* instance.
C28_OneCachedConnection ==
    /\ created <= 1
    /\ Cardinality(Returned) <= 1

\* C29: for every order list in which more than int(0.80 n) orders are
\* Delivered, adjust_status_distribution returns the same n orders with
\* exactly int(0.80 n) Delivered, int(0.12 n) Shipped, int(0.07 n)
\* Processing and the rest Cancelled.
C29_AdjustedCountsAreTargets ==
    [][ (~adjusted /\ adjusted' /\ Count(orders, "Delivered") > (80 * Len(orders)) \div 100) =>
          LET n == Len(orders)
          IN  /\ Len(orders') = n
              /\ \A i \in 1..n : orders'[i].order_id = orders[i].order_id
              /\ Count(orders', "Delivered") = (80 * n) \div 100
              /\ Count(orders', "Shipped") = (12 * n) \div 100
              /\ Count(orders', "Processing") = (7 * n) \div 100
              /\ Count(orders', "Cancelled") =
                    n - (80 * n) \div 100 - (12 * n) \div 100 - (7 * n) \div 100 ]_vars

\* C30: after calculate_order_status and then adjust_status_distribution,
\* every order that has a shipped_date has it on or after its order_date.
C30_ShippedNotBeforeOrdered ==
    \A i \in 1..Len(orders) :
        orders[i].shipped_date # <<>> => orders[i].shipped_date[1] >= orders[i].order_date

\* the adjustment turned a Delivered order placed nine days ago into a
\* Shipped one, shipped yesterday, and another into a Processing one placed
\* within the last days
C30_Witness ==
    /\ adjusted
    /\ \E i \in 1..Len(orders) :
          /\ orders[i].status = "Shipped"
          /\ orders[i].shipped_date = <<CURRENT_DATE - 1>>
          /\ orders[i].order_date = CURRENT_DATE - 9
    /\ \E i \in 1..Len(orders) :
          /\ orders[i].status = "Processing"
          /\ orders[i].order_date >= CURRENT_DATE - 5

=============================================================================
